---- MODULE Spec2Model ----
(***************************************************************************)
(* Model of the Tic-Tac-Toe program src/tic_tac_toe.py (class TicTacToe):  *)
(* the game session driven by Tk callbacks (button commands and `after`   *)
(* timers), the rules (check_winner_on_board, is_board_full, is_draw) and  *)
(* the search (get_best_move, minimax with alpha-beta pruning).            *)
(*                                                                         *)
(* Tk runs one callback at a time (one event loop).  A callback runs      *)
(* until it returns, until an uncaught TclError ends it, or until it opens *)
(* a modal message box: messagebox.showinfo runs the event loop itself, so *)
(* timer callbacks run while the box is open, and the callback that opened *)
(* the box goes on when the box is dismissed.                              *)
(***************************************************************************)
EXTENDS Integers, FiniteSets, Sequences, TLC

(***************************************************************************)
(* Bounds of the model (not program constants).                            *)
(***************************************************************************)
\* A new session is opened only while fewer than MaxGames results are recorded.
MaxGames == 1
\* No step records result number MaxTotal + 1.
MaxTotal == 2
\* At most MaxPending computer_move callbacks are pending at once.
MaxPending == 1
\* In SpecPvP and SpecFair a human clicks one of the first MaxChoice enabled cells
\* (row-major).
MaxChoice == 1
\* The search harness draws boards with at most MaxEmpty empty cells.
MaxEmpty == 5
\* In SpecOptimal a side moves within MaxTicks seconds of its turn.
MaxTicks == 2
\* In SpecSessions a new session starts only while fewer than MaxSessions games
\* are finished.
MaxSessions == 2
\* The in-place search harness draws boards with at most MaxBlank empty cells.
MaxBlank == 4
\* The opening harness draws boards with at most MaxMarks marks.
MaxMarks == 2
\* A score file found at start holds a counter of at most MaxSaved.
MaxSaved == 1

(***************************************************************************)
(* Program constants.                                                      *)
(***************************************************************************)
\* self.turn_time = 30 in start_timer
TurnTime == 30
\* self.game_count = 0 in __init__ (never assigned again)
game_count == 0
\* float('-inf') and float('inf'): every score lies in -1..1
NegInf == -2
PosInf == 2

None == "None"
Idx == 0 .. 2
Marks == {"X", "O"}
Cells == Idx \X Idx
Difficulties == {"easy", "medium", "hard"}
ScoreKeys == {"pvp", "pve_easy", "pve_medium", "pve_hard"}
Counters == {"wins", "losses", "draws"}

Max(a, b) == IF a >= b THEN a ELSE b
Min(a, b) == IF a <= b THEN a ELSE b

\* [[None for _ in range(3)] for _ in range(3)]
EmptyBoard == [i \in Idx |-> [j \in Idx |-> None]]

\* board[row][col] = mark
Place(b, row, col, mark) == [b EXCEPT ![row][col] = mark]

\* [(i, j) for i in range(3) for j in range(3) if board[i][j] is None]
EmptyCells(b) == {c \in Cells : b[c[1]][c[2]] = None}

CountOf(b, mark) == Cardinality({c \in Cells : b[c[1]][c[2]] = mark})

(***************************************************************************)
(* Rules.                                                                  *)
(***************************************************************************)
RowWin(b, i) == b[i][0] = b[i][1] /\ b[i][1] = b[i][2] /\ b[i][0] # None
ColWin(b, i) == b[0][i] = b[1][i] /\ b[1][i] = b[2][i] /\ b[0][i] # None

\* Mutant: the diagonal from (0,2) to (2,0) is not checked
check_winner_no_antidiagonal(b) ==
    IF RowWin(b, 0) THEN b[0][0]
    ELSE IF RowWin(b, 1) THEN b[1][0]
    ELSE IF RowWin(b, 2) THEN b[2][0]
    ELSE IF ColWin(b, 0) THEN b[0][0]
    ELSE IF ColWin(b, 1) THEN b[0][1]
    ELSE IF ColWin(b, 2) THEN b[0][2]
    ELSE IF b[0][0] = b[1][1] /\ b[1][1] = b[2][2] /\ b[0][0] # None THEN b[0][0]
    ELSE None

\* rows 0..2, then columns 0..2, then the two diagonals: the first line found
check_winner_on_board(b) ==
    IF RowWin(b, 0) THEN b[0][0]
    ELSE IF RowWin(b, 1) THEN b[1][0]
    ELSE IF RowWin(b, 2) THEN b[2][0]
    ELSE IF ColWin(b, 0) THEN b[0][0]
    ELSE IF ColWin(b, 1) THEN b[0][1]
    ELSE IF ColWin(b, 2) THEN b[0][2]
    ELSE IF b[0][0] = b[1][1] /\ b[1][1] = b[2][2] /\ b[0][0] # None THEN b[0][0]
    ELSE IF b[0][2] = b[1][1] /\ b[1][1] = b[2][0] /\ b[0][2] # None THEN b[0][2]
    ELSE None

is_board_full(b) == \A i \in Idx : \A j \in Idx : b[i][j] # None

check_winner(b) == check_winner_on_board(b)

is_draw(b) ==
    (\A i \in Idx : \A j \in Idx : b[i][j] # None) /\ check_winner(b) = None

(***************************************************************************)
(* Search: minimax with alpha-beta pruning.  The two nested loops over     *)
(* range(3) are walked by the cell number k = 3*i + j; `break` leaves the  *)
(* loop over j only, so the walk resumes at the first cell of row i + 1    *)
(* with the alpha and beta reached so far.                                 *)
(***************************************************************************)
RECURSIVE minimax(_, _, _, _, _)
RECURSIVE MaxLoop(_, _, _, _, _, _)
RECURSIVE MinLoop(_, _, _, _, _, _)

\* Mutant: the cutoff test with its operands exchanged (alpha <= beta)
RECURSIVE MaxLoopReversedCut(_, _, _, _, _, _)
MaxLoopReversedCut(b, depth, k, alpha, beta, max_eval) ==
    IF k > 8 THEN max_eval
    ELSE LET i == k \div 3
             j == k % 3
         IN  IF b[i][j] # None
             THEN MaxLoopReversedCut(b, depth, k + 1, alpha, beta, max_eval)
             ELSE LET eval_score == minimax(Place(b, i, j, "O"), depth + 1, FALSE, alpha, beta)
                      new_max == Max(max_eval, eval_score)
                      new_alpha == Max(alpha, eval_score)
                  IN  IF new_alpha <= beta
                      THEN MaxLoopReversedCut(b, depth, 3 * (i + 1), new_alpha, beta, new_max)
                      ELSE MaxLoopReversedCut(b, depth, k + 1, new_alpha, beta, new_max)

MaxLoop(b, depth, k, alpha, beta, max_eval) ==
    IF k > 8 THEN max_eval
    ELSE LET i == k \div 3
             j == k % 3
         IN  IF b[i][j] # None
             THEN MaxLoop(b, depth, k + 1, alpha, beta, max_eval)
             ELSE LET eval_score == minimax(Place(b, i, j, "O"), depth + 1, FALSE, alpha, beta)
                      new_max == Max(max_eval, eval_score)
                      new_alpha == Max(alpha, eval_score)
                  IN  IF beta <= new_alpha
                      THEN MaxLoop(b, depth, 3 * (i + 1), new_alpha, beta, new_max)
                      ELSE MaxLoop(b, depth, k + 1, new_alpha, beta, new_max)

MinLoop(b, depth, k, alpha, beta, min_eval) ==
    IF k > 8 THEN min_eval
    ELSE LET i == k \div 3
             j == k % 3
         IN  IF b[i][j] # None
             THEN MinLoop(b, depth, k + 1, alpha, beta, min_eval)
             ELSE LET eval_score == minimax(Place(b, i, j, "X"), depth + 1, TRUE, alpha, beta)
                      new_min == Min(min_eval, eval_score)
                      new_beta == Min(beta, eval_score)
                  IN  IF new_beta <= alpha
                      THEN MinLoop(b, depth, 3 * (i + 1), alpha, new_beta, new_min)
                      ELSE MinLoop(b, depth, k + 1, alpha, new_beta, new_min)

minimax(b, depth, is_maximizing, alpha, beta) ==
    LET winner == check_winner_on_board(b)
    IN  IF winner = "O" THEN 1
        ELSE IF winner = "X" THEN -1
        ELSE IF is_board_full(b) THEN 0
        ELSE IF is_maximizing
             THEN MaxLoop(b, depth, 0, alpha, beta, NegInf)
             ELSE MinLoop(b, depth, 0, alpha, beta, PosInf)

\* The loop of get_best_move: <<best_score, best_move>> after the cells k..8
RECURSIVE BestLoop(_, _, _, _)
BestLoop(b, k, best_score, best_move) ==
    IF k > 8 THEN best_move
    ELSE LET i == k \div 3
             j == k % 3
         IN  IF b[i][j] # None
             THEN BestLoop(b, k + 1, best_score, best_move)
             ELSE LET score == minimax(Place(b, i, j, "O"), 0, FALSE, NegInf, PosInf)
                  IN  IF score > best_score
                      THEN BestLoop(b, k + 1, score, <<i, j>>)
                      ELSE BestLoop(b, k + 1, best_score, best_move)

\* Mutant: the comparison reversed, so the move of least score is kept
RECURSIVE WorstLoop(_, _, _, _)
WorstLoop(b, k, best_score, best_move) ==
    IF k > 8 THEN best_move
    ELSE LET i == k \div 3
             j == k % 3
         IN  IF b[i][j] # None
             THEN WorstLoop(b, k + 1, best_score, best_move)
             ELSE LET score == minimax(Place(b, i, j, "O"), 0, FALSE, NegInf, PosInf)
                  IN  IF score < best_score
                      THEN WorstLoop(b, k + 1, score, <<i, j>>)
                      ELSE WorstLoop(b, k + 1, best_score, best_move)

get_best_move_reversed(b) == WorstLoop(b, 0, PosInf, <<0, 0>>)

\* Mutant: no search, the first empty cell in row-major order
get_best_move_first_empty(b) ==
    IF EmptyCells(b) = {} THEN <<0, 0>>
    ELSE CHOOSE c \in EmptyCells(b) :
             \A d \in EmptyCells(b) : 3 * c[1] + c[2] <= 3 * d[1] + d[2]

\* Mutant: a later move of equal score replaces the one kept (>= for >)
RECURSIVE LastBestLoop(_, _, _, _)
LastBestLoop(b, k, best_score, best_move) ==
    IF k > 8 THEN best_move
    ELSE LET i == k \div 3
             j == k % 3
         IN  IF b[i][j] # None
             THEN LastBestLoop(b, k + 1, best_score, best_move)
             ELSE LET score == minimax(Place(b, i, j, "O"), 0, FALSE, NegInf, PosInf)
                  IN  IF score >= best_score
                      THEN LastBestLoop(b, k + 1, score, <<i, j>>)
                      ELSE LastBestLoop(b, k + 1, best_score, best_move)

get_best_move_last(b) == LastBestLoop(b, 0, NegInf, <<0, 0>>)

\* Mutant: the default result, whatever the board holds
get_best_move_default(b) == <<0, 0>>

get_best_move(b) == BestLoop(b, 0, NegInf, <<0, 0>>)

(***************************************************************************)
(* The search as the code runs it, on one shared grid: a trial mark is     *)
(* written into the grid (board[i][j] = 'O'), the recursive call runs on   *)
(* that grid and the cell is set back to None (board[i][j] = None) before  *)
(* the cutoff test.  A call yields its return value together with the grid *)
(* it leaves behind and a trace of the calls made below it:                *)
(*   cuts: the number of `break`s taken;                                   *)
(*   deepest: the greatest `depth` argument of a call;                     *)
(*   shrinks: every recursive call was made on a grid with fewer empty     *)
(*   cells than the grid of its caller.                                    *)
(***************************************************************************)
NoCalls == [cuts |-> 0, deepest |-> 0, shrinks |-> TRUE]

\* The trace after a recursive call that returned r, made from grid b on grid marked
Traced(seen, r, b, marked, cut) ==
    [cuts |-> seen.cuts + r.cuts + (IF cut THEN 1 ELSE 0),
     deepest |-> Max(seen.deepest, r.deepest),
     shrinks |-> /\ seen.shrinks /\ r.shrinks
                 /\ Cardinality(EmptyCells(marked)) < Cardinality(EmptyCells(b))]

RECURSIVE minimax_in_place(_, _, _, _, _)
RECURSIVE MaxLoopInPlace(_, _, _, _, _, _, _)
RECURSIVE MinLoopInPlace(_, _, _, _, _, _, _)

\* Mutant: the cell is set back to None after the cutoff test, so a `break`
\* leaves the trial mark on the grid
RECURSIVE MaxLoopKeepsMarkOnCut(_, _, _, _, _, _, _)
MaxLoopKeepsMarkOnCut(b, depth, k, alpha, beta, max_eval, seen) ==
    IF k > 8
    THEN [value |-> max_eval, board |-> b, cuts |-> seen.cuts,
          deepest |-> seen.deepest, shrinks |-> seen.shrinks]
    ELSE LET i == k \div 3
             j == k % 3
         IN  IF b[i][j] # None
             THEN MaxLoopKeepsMarkOnCut(b, depth, k + 1, alpha, beta, max_eval, seen)
             ELSE LET marked == Place(b, i, j, "O")
                      r == minimax_in_place(marked, depth + 1, FALSE, alpha, beta)
                      reverted == Place(r.board, i, j, None)
                      new_max == Max(max_eval, r.value)
                      new_alpha == Max(alpha, r.value)
                      cut == beta <= new_alpha
                      now == Traced(seen, r, b, marked, cut)
                  IN  IF cut
                      THEN MaxLoopKeepsMarkOnCut(r.board, depth, 3 * (i + 1),
                                                 new_alpha, beta, new_max, now)
                      ELSE MaxLoopKeepsMarkOnCut(reverted, depth, k + 1,
                                                 new_alpha, beta, new_max, now)

MaxLoopInPlace(b, depth, k, alpha, beta, max_eval, seen) ==
    IF k > 8
    THEN [value |-> max_eval, board |-> b, cuts |-> seen.cuts,
          deepest |-> seen.deepest, shrinks |-> seen.shrinks]
    ELSE LET i == k \div 3
             j == k % 3
         IN  IF b[i][j] # None
             THEN MaxLoopInPlace(b, depth, k + 1, alpha, beta, max_eval, seen)
             ELSE LET marked == Place(b, i, j, "O")
                      r == minimax_in_place(marked, depth + 1, FALSE, alpha, beta)
                      reverted == Place(r.board, i, j, None)
                      new_max == Max(max_eval, r.value)
                      new_alpha == Max(alpha, r.value)
                      cut == beta <= new_alpha
                      now == Traced(seen, r, b, marked, cut)
                  IN  IF cut
                      THEN MaxLoopInPlace(reverted, depth, 3 * (i + 1),
                                          new_alpha, beta, new_max, now)
                      ELSE MaxLoopInPlace(reverted, depth, k + 1,
                                          new_alpha, beta, new_max, now)

\* Mutant: the recursive call is made with depth + 2
RECURSIVE MinLoopDepthByTwo(_, _, _, _, _, _, _)
MinLoopDepthByTwo(b, depth, k, alpha, beta, min_eval, seen) ==
    IF k > 8
    THEN [value |-> min_eval, board |-> b, cuts |-> seen.cuts,
          deepest |-> seen.deepest, shrinks |-> seen.shrinks]
    ELSE LET i == k \div 3
             j == k % 3
         IN  IF b[i][j] # None
             THEN MinLoopDepthByTwo(b, depth, k + 1, alpha, beta, min_eval, seen)
             ELSE LET marked == Place(b, i, j, "X")
                      r == minimax_in_place(marked, depth + 2, TRUE, alpha, beta)
                      reverted == Place(r.board, i, j, None)
                      new_min == Min(min_eval, r.value)
                      new_beta == Min(beta, r.value)
                      cut == new_beta <= alpha
                      now == Traced(seen, r, b, marked, cut)
                  IN  IF cut
                      THEN MinLoopDepthByTwo(reverted, depth, 3 * (i + 1),
                                             alpha, new_beta, new_min, now)
                      ELSE MinLoopDepthByTwo(reverted, depth, k + 1,
                                             alpha, new_beta, new_min, now)

MinLoopInPlace(b, depth, k, alpha, beta, min_eval, seen) ==
    IF k > 8
    THEN [value |-> min_eval, board |-> b, cuts |-> seen.cuts,
          deepest |-> seen.deepest, shrinks |-> seen.shrinks]
    ELSE LET i == k \div 3
             j == k % 3
         IN  IF b[i][j] # None
             THEN MinLoopInPlace(b, depth, k + 1, alpha, beta, min_eval, seen)
             ELSE LET marked == Place(b, i, j, "X")
                      r == minimax_in_place(marked, depth + 1, TRUE, alpha, beta)
                      reverted == Place(r.board, i, j, None)
                      new_min == Min(min_eval, r.value)
                      new_beta == Min(beta, r.value)
                      cut == new_beta <= alpha
                      now == Traced(seen, r, b, marked, cut)
                  IN  IF cut
                      THEN MinLoopInPlace(reverted, depth, 3 * (i + 1),
                                          alpha, new_beta, new_min, now)
                      ELSE MinLoopInPlace(reverted, depth, k + 1,
                                          alpha, new_beta, new_min, now)

minimax_in_place(b, depth, is_maximizing, alpha, beta) ==
    LET winner == check_winner_on_board(b)
        here == [cuts |-> 0, deepest |-> depth, shrinks |-> TRUE]
        Return(v) == [value |-> v, board |-> b, cuts |-> 0,
                      deepest |-> depth, shrinks |-> TRUE]
    IN  IF winner = "O" THEN Return(1)
        ELSE IF winner = "X" THEN Return(-1)
        ELSE IF is_board_full(b) THEN Return(0)
        ELSE IF is_maximizing
             THEN MaxLoopInPlace(b, depth, 0, alpha, beta, NegInf, here)
             ELSE MinLoopInPlace(b, depth, 0, alpha, beta, PosInf, here)

\* get_best_move on self.board: the cell returned, the grid left behind, the trace
RECURSIVE BestLoopInPlace(_, _, _, _, _)
BestLoopInPlace(b, k, best_score, best_move, seen) ==
    IF k > 8
    THEN [move |-> best_move, board |-> b, cuts |-> seen.cuts,
          deepest |-> seen.deepest, shrinks |-> seen.shrinks]
    ELSE LET i == k \div 3
             j == k % 3
         IN  IF b[i][j] # None
             THEN BestLoopInPlace(b, k + 1, best_score, best_move, seen)
             ELSE LET marked == Place(b, i, j, "O")
                      r == minimax_in_place(marked, 0, FALSE, NegInf, PosInf)
                      reverted == Place(r.board, i, j, None)
                      now == Traced(seen, r, b, marked, FALSE)
                  IN  IF r.value > best_score
                      THEN BestLoopInPlace(reverted, k + 1, r.value, <<i, j>>, now)
                      ELSE BestLoopInPlace(reverted, k + 1, best_score, best_move, now)

get_best_move_in_place(b) == BestLoopInPlace(b, 0, NegInf, <<0, 0>>, NoCalls)


(***************************************************************************)
(* Session state: the fields of TicTacToe and what Tk holds for it.        *)
(*   mode, ai_difficulty, current_player, board, turn_time, timer_id,      *)
(*   draw_request_active, draw_request_player, scores: the fields.         *)
(*   scores is the value json.load gave, or the zero record: a JSON object *)
(*   is a function on its keys, a counter that holds a number is that      *)
(*   number (to Python, true and false are the numbers 1 and 0), any other *)
(*   value in the place of the record or of an entry is NotObject(type).   *)
(*   scores[k] is defined on the counters that hold a number: the program  *)
(*   reads a counter only in update_score, start_game and show_statistics, *)
(*   and each of them raises on a counter that holds something else        *)
(*   (TypeError) as it does on a missing one (KeyError).                   *)
(*   self.board is None exactly while mode is None (start_game assigns     *)
(*   both, nothing clears them), so `board` always holds a grid here.      *)
(*   buttons[i][j]: "normal" or "disabled", the state of the cell button.  *)
(*   screen: "game" while the widgets built by start_game exist, "menu"    *)
(*   after clear_window destroyed them for the mode or difficulty          *)
(*   selection, "statistics" for the statistics screen.  The fields        *)
(*   status_label, timer_label and buttons keep naming the destroyed       *)
(*   widgets, and .config on a destroyed widget raises TclError.           *)
(*   draw_request_btn: "None" (no two-human session yet), "normal" or      *)
(*   "disabled" (the state of the button), "destroyed".                    *)
(*   dialog: TRUE while the draw-response Toplevel (grab_set) is open.     *)
(*   boxes: the open message boxes, the last opened last; each is the      *)
(*   sequence of the functions that wait for it to be dismissed, the one   *)
(*   that called messagebox.showinfo first, then its callers.              *)
(*   countdowns: pending root.after(1000, self.countdown) callbacks.       *)
(*   timer_id: "None", "live" (names a pending countdown) or "stale"       *)
(*   (names one that has already fired).                                   *)
(*   pending_moves: pending root.after(500, self.computer_move) callbacks. *)
(*   search: the last call made by the search harness (SearchSpec only).   *)
(***************************************************************************)
VARIABLES mode, ai_difficulty, current_player, board, buttons, screen,
          turn_time, timer_id, countdowns, draw_request_active,
          draw_request_player, draw_request_btn, dialog, boxes, scores,
          pending_moves, search

vars == <<mode, ai_difficulty, current_player, board, buttons, screen,
          turn_time, timer_id, countdowns, draw_request_active,
          draw_request_player, draw_request_btn, dialog, boxes, scores,
          pending_moves, search>>

\* The session as one record, so that a handler is a function from state to
\* state.  raised: an exception (TclError, KeyError) is propagating out of the
\* running callback (never so between two callbacks).
State ==
    [mode |-> mode, ai_difficulty |-> ai_difficulty, current_player |-> current_player,
     board |-> board, buttons |-> buttons, screen |-> screen, turn_time |-> turn_time,
     timer_id |-> timer_id, countdowns |-> countdowns,
     draw_request_active |-> draw_request_active,
     draw_request_player |-> draw_request_player,
     draw_request_btn |-> draw_request_btn, dialog |-> dialog, boxes |-> boxes,
     scores |-> scores, pending_moves |-> pending_moves, raised |-> FALSE]

\* The callback has returned, raised or opened a message box: Tk goes on with
\* the fields as s has them (an exception is reported and dropped).
Becomes(s) ==
    /\ mode' = s.mode
    /\ ai_difficulty' = s.ai_difficulty
    /\ current_player' = s.current_player
    /\ board' = s.board
    /\ buttons' = s.buttons
    /\ screen' = s.screen
    /\ turn_time' = s.turn_time
    /\ timer_id' = s.timer_id
    /\ countdowns' = s.countdowns
    /\ draw_request_active' = s.draw_request_active
    /\ draw_request_player' = s.draw_request_player
    /\ draw_request_btn' = s.draw_request_btn
    /\ dialog' = s.dialog
    /\ boxes' = s.boxes
    /\ scores' = s.scores
    /\ pending_moves' = s.pending_moves

ZeroScores == [k \in ScoreKeys |-> [c \in Counters |-> 0]]
AllNormal == [i \in Idx |-> [j \in Idx |-> "normal"]]
AllDisabled == [i \in Idx |-> [j \in Idx |-> "disabled"]]
ZeroCounters == [c \in Counters |-> 0]
\* A JSON value that is not an object, by its type; subscripting it with a key
\* raises TypeError
JsonTypes == {"null", "boolean", "number", "string", "array"}
NotObject(type) == [type |-> type]

\* self.scores[key][counter] can be read: the record holds the key, its entry
\* is an object and holds a number under the counter
Holds(sc, k, c) == k \in DOMAIN sc /\ c \in DOMAIN sc[k]
\* stats['wins'] + stats['losses'] + stats['draws'] can be computed
Readable(sc, k) == \A c \in Counters : Holds(sc, k, c)

\* The results recorded under key k
KeyTotal(sc, k) ==
    (IF Holds(sc, k, "wins") THEN sc[k]["wins"] ELSE 0)
    + (IF Holds(sc, k, "losses") THEN sc[k]["losses"] ELSE 0)
    + (IF Holds(sc, k, "draws") THEN sc[k]["draws"] ELSE 0)
Total(sc) ==
    KeyTotal(sc, "pvp") + KeyTotal(sc, "pve_easy") + KeyTotal(sc, "pve_medium")
    + KeyTotal(sc, "pve_hard")

\* tic_tac_toe_scores.json when the program starts: missing, not JSON, or a
\* JSON value.  The program writes the four keys with their three counters
\* (save_scores); load_scores takes whatever value the file holds, so a file
\* from elsewhere may hold anything.
NoFile == [exists |-> FALSE, json |-> FALSE, content |-> [k \in {} |-> ZeroCounters]]
NotJson == [exists |-> TRUE, json |-> FALSE, content |-> [k \in {} |-> ZeroCounters]]
JsonFile(sc) == [exists |-> TRUE, json |-> TRUE, content |-> sc]
\* Records saved by earlier runs: one counter holds up to MaxSaved results
SavedScores ==
    {[ZeroScores EXCEPT ![k][c] = n] : k \in ScoreKeys, c \in Counters, n \in 0 .. MaxSaved}
\* Objects that lack some of the keys
PartialScores == {[k \in K |-> ZeroCounters] : K \in (SUBSET ScoreKeys) \ {ScoreKeys}}
\* What a file from elsewhere may hold under a key: an object with any of the
\* counters (none, some, all), or a value that is not an object
ForeignEntries ==
    UNION {[C -> 0 .. MaxSaved] : C \in SUBSET Counters}
    \cup {NotObject(type) : type \in JsonTypes}
\* Values from elsewhere: not an object, or an object with any of the keys, one
\* of which holds a foreign entry
ForeignScores ==
    {NotObject(type) : type \in JsonTypes}
    \cup PartialScores
    \cup UNION {{[k \in K |-> IF k = j THEN e ELSE ZeroCounters] :
                     j \in K, e \in ForeignEntries} : K \in SUBSET ScoreKeys}
\* The files of the program itself
OwnFiles == {NoFile, NotJson} \cup {JsonFile(sc) : sc \in SavedScores}
ScoreFiles == OwnFiles \cup {JsonFile(sc) : sc \in ForeignScores}

\* The value of self.scores after load_scores: json.load(f) when the file
\* exists, the zero record when it does not or when reading it raises
load_scores(file) ==
    IF file.exists /\ file.json THEN file.content ELSE ZeroScores

Other(p) == IF p = "X" THEN "O" ELSE "X"

\* An uncaught exception: the rest of the callback is skipped
Raise(s) == [s EXCEPT !.raised = TRUE]

\* status_label, timer_label and the cell buttons name widgets that
\* clear_window has destroyed
WidgetsDestroyed(s) == s.mode # None /\ s.screen # "game"

\* messagebox.showinfo called by the function `caller`: the modal box opens and
\* the call does not return before the box is dismissed
showinfo(s, caller) == [s EXCEPT !.boxes = Append(@, <<caller>>)]

\* The call made in state s has not returned in t: it waits in a message box
Waits(s, t) == Len(t.boxes) > Len(s.boxes)

\* ... and so does the function that made the call
AlsoWaits(t, caller) == [t EXCEPT !.boxes[Len(t.boxes)] = Append(@, caller)]

\* Mutant: every game against the computer is scored under 'pve_easy'
ScoreKeyIgnoringDifficulty(s) == IF s.mode = "pvp" THEN "pvp" ELSE "pve_easy"

\* f'pve_{self.ai_difficulty}'
ScoreKey(s) ==
    IF s.mode = "pvp" THEN "pvp"
    ELSE IF s.ai_difficulty = "easy" THEN "pve_easy"
    ELSE IF s.ai_difficulty = "medium" THEN "pve_medium"
    ELSE "pve_hard"

\* self.scores[key][counter] += 1 raises, and changes nothing, when the
\* record has no number there (KeyError, TypeError)
update_score(s, result) ==
    LET key == ScoreKey(s)
        counter == IF result = "win" THEN "wins"
                   ELSE IF result = "loss" THEN "losses"
                   ELSE "draws"
    IN  IF ~Holds(s.scores, key, counter) THEN Raise(s)
        ELSE [s EXCEPT !.scores[key][counter] = @ + 1]

\* The result is recorded, then announced; no box when update_score raises
Announce(s, result, caller) ==
    LET t == update_score(s, result)
    IN  IF t.raised THEN t ELSE showinfo(t, caller)

stop_timer(s) ==
    IF s.timer_id # None
    THEN [s EXCEPT !.countdowns = IF s.timer_id = "live" THEN @ - 1 ELSE @,
                   !.timer_id = None]
    ELSE s

\* if self.timer_label: self.timer_label.config(...)
update_timer_label(s) == IF WidgetsDestroyed(s) THEN Raise(s) ELSE s

\* Mutant: the previous countdown is not cancelled
start_timer_without_cancel(s) ==
    LET t == update_timer_label([s EXCEPT !.turn_time = TurnTime])
    IN  IF t.raised THEN t
        ELSE [t EXCEPT !.countdowns = @ + 1, !.timer_id = "live"]

start_timer(s) ==
    LET t == update_timer_label([stop_timer(s) EXCEPT !.turn_time = TurnTime])
    IN  IF t.raised THEN t
        ELSE [t EXCEPT !.countdowns = @ + 1, !.timer_id = "live"]

\* self.root.after(500, self.computer_move)
ScheduleMove(s) == [s EXCEPT !.pending_moves = @ + 1]

\* self.buttons is None exactly while mode is None; the first button.config
\* raises when the buttons are destroyed
disable_all_buttons(s) ==
    IF s.mode = None THEN s
    ELSE IF WidgetsDestroyed(s) THEN Raise(s)
    ELSE [s EXCEPT !.buttons = AllDisabled]

\* clear_window: stop_timer, then every widget of the root window is destroyed
\* (the draw-response dialog is a child of the root window)
clear_window(s) ==
    [stop_timer(s) EXCEPT !.screen = "menu", !.dialog = FALSE,
                          !.draw_request_btn = IF @ = None THEN None ELSE "destroyed"]

\* The branches of make_move after the mark is placed: winner = check_winner();
\* if winner ... elif is_draw() ... else
Outcome(b) ==
    IF check_winner(b) # None THEN check_winner(b)
    ELSE IF is_draw(b) THEN "draw"
    ELSE "in_progress"

\* Mutant: the mark written is always X
make_move_always_x(s, row, col) ==
    IF s.mode = None \/ s.current_player = None THEN s
    ELSE LET marked == [s EXCEPT !.board[row][col] = "X"]
         IN  IF WidgetsDestroyed(s) THEN Raise(marked)
             ELSE LET shown == [marked EXCEPT !.buttons[row][col] = "disabled"]
                      outcome == Outcome(shown.board)
                  IN  IF outcome \in Marks
                      THEN Announce(disable_all_buttons(shown),
                                    IF outcome = "X" THEN "win" ELSE "loss",
                                    "make_move")
                      ELSE IF outcome = "draw"
                      THEN Announce(disable_all_buttons(shown), "draw", "make_move")
                      ELSE start_timer([shown EXCEPT !.current_player = Other(@)])

\* Up to messagebox.showinfo on a win or a draw; button.config raises when the
\* cell button is destroyed (the mark is on the board by then), update_score
\* when the record lacks the key (the buttons are disabled by then)
make_move(s, row, col) ==
    IF s.mode = None \/ s.current_player = None THEN s
    ELSE LET marked == [s EXCEPT !.board[row][col] = s.current_player]
         IN  IF WidgetsDestroyed(s) THEN Raise(marked)
             ELSE LET shown == [marked EXCEPT !.buttons[row][col] = "disabled"]
                      outcome == Outcome(shown.board)
                  IN  IF outcome \in Marks
                      THEN Announce(disable_all_buttons(shown),
                                    IF outcome = "X" THEN "win" ELSE "loss",
                                    "make_move")
                      ELSE IF outcome = "draw"
                      THEN Announce(disable_all_buttons(shown), "draw", "make_move")
                      ELSE start_timer([shown EXCEPT !.current_player = Other(@)])

\* make_move once its message box is dismissed: self.stop_timer()
make_move_resumed(s) == stop_timer(s)

\* Mutant: a random empty cell at every difficulty
ComputerChoicesRandom(s) == EmptyCells(s.board)

\* The cells computer_move may pass to make_move
ComputerChoices(s) ==
    LET empty == EmptyCells(s.board)
    IN  IF s.ai_difficulty = "easy" THEN empty
        ELSE IF s.ai_difficulty = "medium" THEN empty \cup {get_best_move(s.board)}
        ELSE {get_best_move(s.board)}

\* computer_move once make_move has returned: self.start_timer()
computer_move_resumed(s) == start_timer(s)

computer_move(s, cell) ==
    IF s.mode = None THEN s
    ELSE IF EmptyCells(s.board) = {} THEN s
    ELSE LET t == make_move(s, cell[1], cell[2])
         IN  IF t.raised THEN t
             ELSE IF Waits(s, t) THEN AlsoWaits(t, "computer_move")
             ELSE computer_move_resumed(t)

\* handle_click once make_move has returned: self.start_timer(), then the
\* computer's move is scheduled if it is O's turn against the computer
handle_click_resumed(s) ==
    LET t == start_timer(s)
    IN  IF t.raised THEN t
        ELSE IF t.mode = "pve" /\ t.current_player = "O" THEN ScheduleMove(t)
        ELSE t

\* Mutant: no check that it is the computer's turn
handle_click_any_turn(s, row, col) ==
    IF s.mode = None THEN s
    ELSE IF s.board[row][col] # None THEN s
    ELSE LET t == make_move(s, row, col)
         IN  IF t.raised THEN t
             ELSE IF Waits(s, t) THEN AlsoWaits(t, "handle_click")
             ELSE handle_click_resumed(t)

handle_click(s, row, col) ==
    IF s.mode = None THEN s
    ELSE IF s.board[row][col] # None THEN s
    ELSE IF s.mode = "pve" /\ s.current_player = "O" THEN s
    ELSE LET t == make_move(s, row, col)
         IN  IF t.raised THEN t
             ELSE IF Waits(s, t) THEN AlsoWaits(t, "handle_click")
             ELSE handle_click_resumed(t)

\* Mutant: the pass to the computer schedules no computer_move
handle_timeout_unscheduled(s) ==
    IF s.mode # None /\ s.current_player # None
    THEN IF s.mode = "pve" /\ s.current_player = "O" THEN s
         ELSE LET passed == [s EXCEPT !.current_player = Other(@)]
              IN  IF WidgetsDestroyed(s) THEN Raise(passed)
                  ELSE start_timer(passed)
    ELSE s

\* status_label.config raises when the label is destroyed (the side to move
\* is flipped by then)
handle_timeout(s) ==
    IF s.mode # None /\ s.current_player # None
    THEN IF s.mode = "pve" /\ s.current_player = "O" THEN s
         ELSE LET passed == [s EXCEPT !.current_player = Other(@)]
              IN  IF WidgetsDestroyed(s) THEN Raise(passed)
                  ELSE LET t == start_timer(passed)
                       IN  IF t.raised THEN t
                           ELSE IF t.mode = "pve" /\ t.current_player = "O"
                           THEN ScheduleMove(t)
                           ELSE t
    ELSE s

\* The callback has fired: it is no longer pending, and timer_id (if it named
\* this callback) names a fired one.
countdown(s) ==
    LET fired == [s EXCEPT !.countdowns = @ - 1,
                           !.timer_id = IF @ = "live" THEN "stale" ELSE @,
                           !.turn_time = @ - 1]
        t == update_timer_label(fired)
    IN  IF t.raised THEN t
        ELSE IF t.turn_time <= 0 THEN handle_timeout(t)
        ELSE [t EXCEPT !.countdowns = @ + 1, !.timer_id = "live"]

\* Mutant: the first mover of a two-human game alternates with the games played
start_game_alternating(s, m) ==
    LET fresh == [s EXCEPT !.mode = m, !.board = EmptyBoard, !.buttons = AllNormal,
                           !.current_player = IF m = "pvp"
                                              THEN (IF Total(s.scores) % 2 = 0
                                                    THEN "X" ELSE "O")
                                              ELSE "X"]
        built == [clear_window(fresh) EXCEPT
                      !.screen = "game",
                      !.draw_request_btn = IF m = "pvp" THEN "normal" ELSE @]
        t == start_timer(built)
    IN  IF ~Readable(built.scores, ScoreKey(built)) THEN Raise(built)
        ELSE IF t.mode = "pve" /\ t.current_player = "O" THEN ScheduleMove(t)
        ELSE t

\* The widgets are built anew after clear_window; draw_request_btn only in a
\* two-human session (else the field keeps naming the destroyed one).  The
\* statistics panel adds up the three counters of self.scores[key] after the
\* labels and the buttons are built and before start_timer: it raises when one
\* of them cannot be read
start_game(s, m) ==
    LET fresh == [s EXCEPT !.mode = m, !.board = EmptyBoard, !.buttons = AllNormal,
                           !.current_player = IF m = "pvp"
                                              THEN (IF game_count % 2 = 0 THEN "X" ELSE "O")
                                              ELSE "X"]
        built == [clear_window(fresh) EXCEPT
                      !.screen = "game",
                      !.draw_request_btn = IF m = "pvp" THEN "normal" ELSE @]
        t == start_timer(built)
    IN  IF ~Readable(built.scores, ScoreKey(built)) THEN Raise(built)
        ELSE IF t.mode = "pve" /\ t.current_player = "O" THEN ScheduleMove(t)
        ELSE t

start_game_with_ai(s, difficulty) ==
    start_game([s EXCEPT !.ai_difficulty = difficulty], "pve")

reset_game(s) ==
    LET t == [s EXCEPT !.draw_request_active = FALSE, !.draw_request_player = None]
    IN  IF t.mode # None
        THEN IF t.mode = "pve" THEN start_game_with_ai(t, t.ai_difficulty)
             ELSE start_game(t, t.mode)
        ELSE t

\* create_mode_selection, create_ai_difficulty_selection
create_mode_selection(s) == clear_window(s)

\* clear_window, then a card for each of the four keys, which adds up its
\* three counters, and, after the cards, the back button: it raises at the
\* first key with a counter that cannot be read
show_statistics(s) ==
    LET t == [clear_window(s) EXCEPT !.screen = "statistics"]
    IN  IF \A k \in ScoreKeys : Readable(t.scores, k) THEN t ELSE Raise(t)

\* if self.draw_request_btn: self.draw_request_btn.config(..., state=state)
ConfigDrawRequestBtn(s, state) ==
    IF s.draw_request_btn = None THEN s
    ELSE IF s.draw_request_btn = "destroyed" THEN Raise(s)
    ELSE [s EXCEPT !.draw_request_btn = state]

\* dialog = tk.Toplevel(self.root); dialog.grab_set(); the dialog's 30 s
\* auto-close is pending while the dialog exists
show_draw_response_dialog(s) == [s EXCEPT !.dialog = TRUE]

\* Mutant: no check of the mode
request_draw_any_mode(s) ==
    IF s.draw_request_active THEN s
    ELSE LET asked == ConfigDrawRequestBtn(
                          [s EXCEPT !.draw_request_active = TRUE,
                                    !.draw_request_player = s.current_player],
                          "disabled")
         IN  IF asked.raised THEN asked ELSE showinfo(asked, "request_draw")

\* Mutant: no check of a request already pending
request_draw_while_pending(s) ==
    IF s.mode # "pvp" THEN s
    ELSE LET asked == ConfigDrawRequestBtn(
                          [s EXCEPT !.draw_request_active = TRUE,
                                    !.draw_request_player = s.current_player],
                          "disabled")
         IN  IF asked.raised THEN asked ELSE showinfo(asked, "request_draw")

\* Up to messagebox.showinfo
request_draw(s) ==
    IF s.mode # "pvp" \/ s.draw_request_active THEN s
    ELSE LET asked == ConfigDrawRequestBtn(
                          [s EXCEPT !.draw_request_active = TRUE,
                                    !.draw_request_player = s.current_player],
                          "disabled")
         IN  IF asked.raised THEN asked ELSE showinfo(asked, "request_draw")

\* request_draw once its message box is dismissed
request_draw_resumed(s) == show_draw_response_dialog(s)

\* Mutant: the draw is not scored
end_game_draw_unscored(s) ==
    LET t == [s EXCEPT !.draw_request_active = FALSE, !.draw_request_player = None]
    IN  IF WidgetsDestroyed(t) THEN Raise(t)
        ELSE showinfo(disable_all_buttons(t), "end_game_draw")

\* Up to messagebox.showinfo; status_label.config raises when the label is
\* destroyed (the request is cleared by then)
end_game_draw(s) ==
    LET t == [s EXCEPT !.draw_request_active = FALSE, !.draw_request_player = None]
    IN  IF WidgetsDestroyed(t) THEN Raise(t)
        ELSE Announce(disable_all_buttons(t), "draw", "end_game_draw")

\* end_game_draw once its message box is dismissed
end_game_draw_resumed(s) == ConfigDrawRequestBtn(stop_timer(s), "normal")

\* Toplevel.destroy of the dialog: its auto-close is deleted with it
destroy(s) == [s EXCEPT !.dialog = FALSE]

\* toplevel: "open" when the Toplevel passed is the open dialog, "destroyed"
\* when it has been destroyed already (dialog.destroy() is then a no-op)
handle_draw_response(s, accepted, toplevel) ==
    LET t == IF toplevel = "open" THEN destroy(s) ELSE s
    IN  IF accepted
        THEN LET u == end_game_draw(t)
             IN  IF u.raised THEN u ELSE AlsoWaits(u, "handle_draw_response")
        ELSE LET u == ConfigDrawRequestBtn(
                          [t EXCEPT !.draw_request_active = FALSE,
                                    !.draw_request_player = None],
                          "normal")
             IN  IF u.raised THEN u ELSE showinfo(u, "handle_draw_response")

\* What is left of `caller` when the call it waits for returns
Resumed(s, caller) ==
    IF caller = "make_move" THEN make_move_resumed(s)
    ELSE IF caller = "computer_move" THEN computer_move_resumed(s)
    ELSE IF caller = "handle_click" THEN handle_click_resumed(s)
    ELSE IF caller = "request_draw" THEN request_draw_resumed(s)
    ELSE IF caller = "end_game_draw" THEN end_game_draw_resumed(s)
    ELSE s

\* The waiting functions go on one after the other, the innermost first, until
\* one raises
RECURSIVE Return(_, _)
Return(s, callers) ==
    IF callers = <<>> \/ s.raised THEN s
    ELSE Return(Resumed(s, Head(callers)), Tail(callers))

\* The last opened message box is dismissed: messagebox.showinfo returns
showinfo_returns(s) ==
    LET n == Len(s.boxes)
    IN  Return([s EXCEPT !.boxes = SubSeq(@, 1, n - 1)], s.boxes[n])


(***************************************************************************)
(* Events.  Tk runs a button's command only while the button exists, is    *)
(* not disabled and no other window holds the grab (the draw-response      *)
(* dialog and an open message box do); it runs an `after` callback once,   *)
(* when its delay has passed, also while a message box is open (the box    *)
(* runs the event loop until it is dismissed).  A computer_move callback   *)
(* (500 ms) is always due before the countdown (1000 ms) that was started  *)
(* in the same handler or later, so Countdown waits for pending moves.     *)
(***************************************************************************)
\* A step to state s, within the bounds on the counters.
Step(s) ==
    /\ s.pending_moves <= MaxPending
    /\ Total(s.scores) <= MaxTotal
    /\ Becomes(s)
    /\ UNCHANGED search

NoSearch == [op |-> "none", is_maximizing |-> FALSE, value |-> 0, move |-> <<0, 0>>]

\* The state after __init__ with the score file `file`: the mode-selection
\* screen
InitWith(file) ==
    /\ mode = None
    /\ ai_difficulty = "hard"
    /\ current_player = None
    /\ board = EmptyBoard
    /\ buttons = AllDisabled
    /\ screen = "menu"
    /\ turn_time = TurnTime
    /\ timer_id = None
    /\ countdowns = 0
    /\ draw_request_active = FALSE
    /\ draw_request_player = None
    /\ draw_request_btn = None
    /\ dialog = FALSE
    /\ boxes = <<>>
    /\ scores = load_scores(file)
    /\ pending_moves = 0
    /\ search = NoSearch

Init == \E file \in ScoreFiles : InitWith(file)

\* The first run of the program: no score file yet
FirstRun == InitWith(NoFile)

\* A run that finds no score file or one the program wrote
OwnRun == \E file \in OwnFiles : InitWith(file)

\* The mode-selection button: start_game('pvp')
StartGame ==
    /\ screen = "menu" /\ boxes = <<>>
    /\ Total(scores) < MaxGames
    /\ Step(start_game(State, "pvp"))

\* The difficulty buttons: start_game_with_ai(difficulty)
StartGameWithAI(difficulty) ==
    /\ screen = "menu" /\ boxes = <<>>
    /\ Total(scores) < MaxGames
    /\ Step(start_game_with_ai(State, difficulty))

\* reset_btn
ResetGame ==
    /\ screen = "game" /\ ~dialog /\ boxes = <<>>
    /\ Total(scores) < MaxGames
    /\ Step(reset_game(State))

\* The back button of the game screen, or of the statistics screen (built
\* only when show_statistics did not raise)
CreateModeSelection ==
    /\ \/ screen = "game"
       \/ screen = "statistics" /\ \A k \in ScoreKeys : Readable(scores, k)
    /\ ~dialog /\ boxes = <<>>
    /\ Step(create_mode_selection(State))

\* A cell button
HandleClick(row, col) ==
    /\ screen = "game" /\ ~dialog /\ boxes = <<>>
    /\ buttons[row][col] = "normal"
    /\ Step(handle_click(State, row, col))

\* draw_request_btn
RequestDraw ==
    /\ screen = "game" /\ ~dialog /\ boxes = <<>>
    /\ draw_request_btn = "normal"
    /\ Step(request_draw(State))

\* The dialog's accept and reject buttons, and its 30 s auto-close (a
\* rejection), which is a timer: it fires also while a message box is open
HandleDrawResponse(accepted) ==
    /\ dialog
    /\ boxes = <<>> \/ ~accepted
    /\ Step(handle_draw_response(State, accepted, "open"))

\* The close button of the dialog's title bar: WM_DELETE_WINDOW is bound to
\* Toplevel.destroy (the program sets no protocol handler), so the dialog goes
\* and handle_draw_response does not run
CloseDialog ==
    /\ dialog /\ boxes = <<>>
    /\ Step(destroy(State))

\* The statistics button of the mode selection or of the game screen
ShowStatistics ==
    /\ screen \in {"menu", "game"} /\ ~dialog /\ boxes = <<>>
    /\ Step(show_statistics(State))

\* The button of the last opened message box
ShowinfoReturns ==
    /\ boxes # <<>>
    /\ Step(showinfo_returns(State))

ComputerMove ==
    /\ pending_moves > 0
    /\ LET due == [State EXCEPT !.pending_moves = @ - 1]
       IN  IF due.mode = None \/ EmptyCells(due.board) = {}
           THEN Step(computer_move(due, <<0, 0>>))
           ELSE \E cell \in ComputerChoices(due) : Step(computer_move(due, cell))

Countdown ==
    /\ countdowns > 0
    /\ pending_moves = 0
    /\ Step(countdown(State))

(***************************************************************************)
(* Specifications.  All but SpecLoaded and SpecSaved are first runs of the *)
(* program (no score file).  Spec: sessions against the computer on Easy,  *)
(* where it may play any empty cell (every move Medium or Hard can make).  *)
(* SpecHard: human-vs-computer sessions on Hard.  SpecPvP: one two-human   *)
(* session.  SearchSpec: the rules and the search called on any grid.      *)
(***************************************************************************)
Session ==
    \/ ResetGame
    \/ CreateModeSelection
    \/ \E row \in Idx, col \in Idx : HandleClick(row, col)
    \/ ShowinfoReturns
    \/ ComputerMove
    \/ Countdown

Next == StartGameWithAI("easy") \/ Session

Spec == FirstRun /\ [][Next]_vars

\* Hard sessions that the player neither restarts nor leaves while a computer
\* move is pending.
NextHard ==
    \/ StartGameWithAI("hard")
    \/ (pending_moves = 0 /\ ResetGame)
    \/ (pending_moves = 0 /\ CreateModeSelection)
    \/ \E row \in Idx, col \in Idx : HandleClick(row, col)
    \/ ShowinfoReturns
    \/ ComputerMove
    \/ Countdown

SpecHard == FirstRun /\ [][NextHard]_vars

CellNo(c) == 3 * c[1] + c[2]
EnabledCells == {c \in Cells : buttons[c[1]][c[2]] = "normal"}
FirstChoices ==
    {c \in EnabledCells :
        Cardinality({d \in EnabledCells : CellNo(d) < CellNo(c)}) < MaxChoice}

\* The first enabled cell (row-major): the click of a human in SpecSessions.
FirstCell == {c \in EnabledCells : \A d \in EnabledCells : CellNo(c) <= CellNo(d)}

\* One two-human session, with draw requests and the turn timeouts.
NextPvP ==
    \/ StartGame
    \/ \E c \in FirstChoices : HandleClick(c[1], c[2])
    \/ RequestDraw
    \/ \E accepted \in BOOLEAN : HandleDrawResponse(accepted)
    \/ CloseDialog
    \/ ShowinfoReturns
    \/ Countdown

SpecPvP == FirstRun /\ [][NextPvP]_vars

\* Sessions against the computer where the callbacks scheduled with root.after
\* eventually fire (the player is free to click, restart and leave, or not to).
NextFair ==
    \/ StartGameWithAI("easy")
    \/ ResetGame
    \/ CreateModeSelection
    \/ \E c \in FirstChoices : HandleClick(c[1], c[2])
    \/ ShowinfoReturns
    \/ ComputerMove
    \/ Countdown

SpecFair == FirstRun /\ [][NextFair]_vars /\ WF_vars(ComputerMove) /\ WF_vars(Countdown)

\* Hard sessions in which the human plays only moves of least minimax value and
\* both sides move before the turn timer expires (strict alternation, X first).
XMoveValue(b, c) == minimax(Place(b, c[1], c[2], "X"), 0, TRUE, NegInf, PosInf)
OptimalCells(b) ==
    LET values == {XMoveValue(b, c) : c \in EmptyCells(b)}
        least == CHOOSE v \in values : \A u \in values : v <= u
    IN  {c \in EmptyCells(b) : XMoveValue(b, c) = least}

OptimalClick ==
    /\ mode = "pve" /\ current_player = "X"
    /\ \E c \in OptimalCells(board) : HandleClick(c[1], c[2])

\* At most MaxTicks seconds of a turn pass before the side to move plays
TickInTime == turn_time > TurnTime - MaxTicks /\ Countdown

NextOptimal ==
    \/ StartGameWithAI("hard")
    \/ OptimalClick
    \/ ShowinfoReturns
    \/ ComputerMove
    \/ TickInTime

SpecOptimal == FirstRun /\ [][NextOptimal]_vars

\* Sessions of both modes (two humans, or a human against the computer on
\* Easy), one after another, in which the players act before the timer ticks:
\* the buttons of the menu and of the game screen, clicks on the first enabled
\* cell, the draw handshake (answered, or its dialog closed without an answer)
\* and the computer_move callbacks (stale ones too).
StartGameWithin(limit) ==
    /\ screen = "menu" /\ boxes = <<>>
    /\ Total(scores) < limit
    /\ Step(start_game(State, "pvp"))

StartGameWithAIWithin(difficulty, limit) ==
    /\ screen = "menu" /\ boxes = <<>>
    /\ Total(scores) < limit
    /\ Step(start_game_with_ai(State, difficulty))

ResetGameWithin(limit) ==
    /\ screen = "game" /\ ~dialog /\ boxes = <<>>
    /\ Total(scores) < limit
    /\ Step(reset_game(State))

NextSessions ==
    \/ StartGameWithin(MaxSessions)
    \/ StartGameWithAIWithin("easy", MaxSessions)
    \/ ResetGameWithin(MaxSessions)
    \/ CreateModeSelection
    \/ \E c \in FirstCell : HandleClick(c[1], c[2])
    \/ RequestDraw
    \/ \E accepted \in BOOLEAN : HandleDrawResponse(accepted)
    \/ CloseDialog
    \/ ShowinfoReturns
    \/ ComputerMove

SpecSessions == FirstRun /\ [][NextSessions]_vars

\* One session against the computer at each difficulty, played without a
\* timeout, a restart or a return to the menu.
NextPolicies ==
    \/ \E difficulty \in Difficulties : StartGameWithAI(difficulty)
    \/ \E c \in FirstChoices : HandleClick(c[1], c[2])
    \/ ShowinfoReturns
    \/ ComputerMove

SpecPolicies == FirstRun /\ [][NextPolicies]_vars

\* One session of either mode, against the computer at every difficulty, with
\* the turn timeouts and the computer_move callbacks they schedule (also after
\* the game has ended).
NextAny ==
    \/ StartGame
    \/ \E difficulty \in Difficulties : StartGameWithAI(difficulty)
    \/ \E c \in FirstChoices : HandleClick(c[1], c[2])
    \/ ShowinfoReturns
    \/ ComputerMove
    \/ Countdown

SpecAny == FirstRun /\ [][NextAny]_vars

\* The first session of a run: two humans, or a human against the computer on
\* Easy, who act before the timer ticks, with the draw handshake, the
\* statistics screen and the way back to the mode selection.  SpecLoaded
\* starts with any score file, SpecSaved with none or one the program wrote.
FirstStart ==
    /\ mode = None /\ screen = "menu"
    /\ \/ Step(start_game(State, "pvp"))
       \/ Step(start_game_with_ai(State, "easy"))

NextLoaded ==
    \/ FirstStart
    \/ ShowStatistics
    \/ CreateModeSelection
    \/ \E c \in FirstChoices : HandleClick(c[1], c[2])
    \/ RequestDraw
    \/ \E accepted \in BOOLEAN : HandleDrawResponse(accepted)
    \/ CloseDialog
    \/ ShowinfoReturns
    \/ ComputerMove

SpecLoaded == Init /\ [][NextLoaded]_vars

SpecSaved == OwnRun /\ [][NextLoaded]_vars

\* Every grid of None, X and O; the search is called on those with at most
\* MaxEmpty empty cells and on the empty grid.
AllBoards == [Idx -> [Idx -> {None, "X", "O"}]]
Searchable(b) == Cardinality(EmptyCells(b)) <= MaxEmpty \/ b = EmptyBoard

SearchInit ==
    /\ mode = None
    /\ ai_difficulty = "hard"
    /\ current_player = None
    /\ board \in AllBoards
    /\ buttons = AllDisabled
    /\ screen = "menu"
    /\ turn_time = TurnTime
    /\ timer_id = None
    /\ countdowns = 0
    /\ draw_request_active = FALSE
    /\ draw_request_player = None
    /\ draw_request_btn = None
    /\ dialog = FALSE
    /\ boxes = <<>>
    /\ scores = ZeroScores
    /\ pending_moves = 0
    /\ search = NoSearch

\* minimax(board, 0, is_maximizing, float('-inf'), float('inf'))
CallMinimax(is_maximizing) ==
    /\ search = NoSearch
    /\ Searchable(board)
    /\ search' = [op |-> "minimax", is_maximizing |-> is_maximizing,
                  value |-> minimax(board, 0, is_maximizing, NegInf, PosInf),
                  move |-> <<0, 0>>]
    /\ UNCHANGED <<mode, ai_difficulty, current_player, board, buttons, screen,
                   turn_time, timer_id, countdowns, draw_request_active,
                   draw_request_player, draw_request_btn, dialog, boxes, scores,
                   pending_moves>>

\* get_best_move() with self.board = board
CallGetBestMove ==
    /\ search = NoSearch
    /\ Searchable(board)
    /\ search' = [op |-> "get_best_move", is_maximizing |-> TRUE, value |-> 0,
                  move |-> get_best_move(board)]
    /\ UNCHANGED <<mode, ai_difficulty, current_player, board, buttons, screen,
                   turn_time, timer_id, countdowns, draw_request_active,
                   draw_request_player, draw_request_btn, dialog, boxes, scores,
                   pending_moves>>

SearchNext ==
    \/ \E is_maximizing \in BOOLEAN : CallMinimax(is_maximizing)
    \/ CallGetBestMove

SearchSpec == SearchInit /\ [][SearchNext]_vars

\* get_best_move() called early in a game: on the grids with at most MaxMarks
\* marks.
CallGetBestMoveEarly ==
    /\ search = NoSearch
    /\ CountOf(board, "X") + CountOf(board, "O") <= MaxMarks
    /\ search' = [op |-> "get_best_move", is_maximizing |-> TRUE, value |-> 0,
                  move |-> get_best_move(board)]
    /\ UNCHANGED <<mode, ai_difficulty, current_player, board, buttons, screen,
                   turn_time, timer_id, countdowns, draw_request_active,
                   draw_request_player, draw_request_btn, dialog, boxes, scores,
                   pending_moves>>

OpeningNext == CallGetBestMoveEarly

OpeningSpec == SearchInit /\ [][OpeningNext]_vars

\* The search run on self.board itself: what the call returns and the grid it
\* leaves in self.board.  It is run on the grids with at most MaxBlank empty
\* cells and on the empty grid.
Runnable(b) == Cardinality(EmptyCells(b)) <= MaxBlank \/ b = EmptyBoard

RunMinimax(is_maximizing) ==
    /\ search = NoSearch
    /\ Runnable(board)
    /\ LET r == minimax_in_place(board, 0, is_maximizing, NegInf, PosInf)
       IN  /\ board' = r.board
           /\ search' = [op |-> "minimax_in_place", is_maximizing |-> is_maximizing,
                         value |-> r.value, move |-> <<0, 0>>]
    /\ UNCHANGED <<mode, ai_difficulty, current_player, buttons, screen,
                   turn_time, timer_id, countdowns, draw_request_active,
                   draw_request_player, draw_request_btn, dialog, boxes, scores,
                   pending_moves>>

RunGetBestMove ==
    /\ search = NoSearch
    /\ Runnable(board)
    /\ LET r == get_best_move_in_place(board)
       IN  /\ board' = r.board
           /\ search' = [op |-> "get_best_move_in_place", is_maximizing |-> TRUE,
                         value |-> 0, move |-> r.move]
    /\ UNCHANGED <<mode, ai_difficulty, current_player, buttons, screen,
                   turn_time, timer_id, countdowns, draw_request_active,
                   draw_request_player, draw_request_btn, dialog, boxes, scores,
                   pending_moves>>

InPlaceNext ==
    \/ \E is_maximizing \in BOOLEAN : RunMinimax(is_maximizing)
    \/ RunGetBestMove

InPlaceSpec == SearchInit /\ [][InPlaceNext]_vars


(***************************************************************************)
(* Notions the properties are stated with.                                 *)
(***************************************************************************)
\* The eight lines of the grid
Lines ==
    {{<<i, 0>>, <<i, 1>>, <<i, 2>>} : i \in Idx}
    \cup {{<<0, j>>, <<1, j>>, <<2, j>>} : j \in Idx}
    \cup {{<<0, 0>>, <<1, 1>>, <<2, 2>>}, {<<0, 2>>, <<1, 1>>, <<2, 0>>}}

\* Some line of b holds three marks `mark`
HasLine(b, mark) == \E l \in Lines : \A c \in l : b[c[1]][c[2]] = mark

\* The session is over: disable_all_buttons has run on the game screen
GameOver == screen = "game" /\ buttons = AllDisabled

\* A step that opens a new session (start_game: fresh board, fresh buttons)
NewSession == board' = EmptyBoard /\ buttons' = AllNormal

\* Minimax without pruning: the value of b with O to move (is_maximizing) or X
RECURSIVE PlainMinimax(_, _)
PlainMinimax(b, is_maximizing) ==
    IF HasLine(b, "O") /\ check_winner_on_board(b) = "O" THEN 1
    ELSE IF HasLine(b, "X") /\ check_winner_on_board(b) = "X" THEN -1
    ELSE IF EmptyCells(b) = {} THEN 0
    ELSE LET values == {PlainMinimax(Place(b, c[1], c[2],
                                           IF is_maximizing THEN "O" ELSE "X"),
                                     ~is_maximizing) : c \in EmptyCells(b)}
         IN  IF is_maximizing
             THEN CHOOSE v \in values : \A u \in values : u <= v
             ELSE CHOOSE v \in values : \A u \in values : v <= u

(***************************************************************************)
(* C1.  On Hard, with the sides alternating from the empty board (X first, *)
(* or O first after a timeout pass) and no restart while a computer move   *)
(* is pending, X never completes a line: a finished game is an O win or a  *)
(* draw.  Checked under SpecHard.                                          *)
(***************************************************************************)
C1_HardNeverLoses ==
    (mode = "pve" /\ ai_difficulty = "hard") =>
        /\ ~HasLine(board, "X")
        /\ GameOver => (HasLine(board, "O") \/ is_board_full(board))

\* A finished Hard game that the computer won moving second
C1_Witness ==
    /\ mode = "pve" /\ ai_difficulty = "hard" /\ GameOver
    /\ HasLine(board, "O")
    /\ CountOf(board, "X") = CountOf(board, "O")

(***************************************************************************)
(* C2.  minimax called with alpha = -infinity and beta = +infinity returns *)
(* the value of minimax without pruning, for every grid and either side to *)
(* move.  Checked under SearchSpec.                                        *)
(***************************************************************************)
C2_PruningKeepsValue ==
    search.op = "minimax" =>
        search.value = PlainMinimax(board, search.is_maximizing)

\* The search of the whole game tree from the empty board, O to move
C2_Witness ==
    /\ search.op = "minimax" /\ search.is_maximizing
    /\ board = EmptyBoard
    /\ search.value = 0


(***************************************************************************)
(* C3.  Once the session is over, no event other than starting a new       *)
(* session changes the board or the side to move.                          *)
(***************************************************************************)
C3_TerminalIsFinal ==
    [][(GameOver /\ ~NewSession) =>
           (board' = board /\ current_player' = current_player)]_vars

(***************************************************************************)
(* C4.  The score counters grow by exactly 1 when the session reaches its  *)
(* terminal outcome, and by nothing in any other step.                     *)
(***************************************************************************)
C4_ScoredOnce ==
    [][IF ~GameOver /\ GameOver'
       THEN Total(scores') = Total(scores) + 1
       ELSE scores' = scores]_vars

(***************************************************************************)
(* C5.  handle_click on an occupied cell, or in human-vs-computer mode     *)
(* while it is O's turn, changes nothing: board, side to move, scores and  *)
(* turn timer (and every other field) stay as they were.  Checked under    *)
(* SpecAny.                                                                *)
(***************************************************************************)
C5_InvalidClickRejected ==
    \A row \in Idx, col \in Idx :
        (mode # None /\ (board[row][col] # None
                         \/ (mode = "pve" /\ current_player = "O")))
            => handle_click(State, row, col) = State

\* The computer's turn with a move pending, an occupied cell and an enabled button
C5_Witness ==
    /\ mode = "pve" /\ current_player = "O" /\ screen = "game" /\ ~GameOver
    /\ pending_moves > 0
    /\ \E c \in Cells : board[c[1]][c[2]] # None
    /\ \E c \in Cells : board[c[1]][c[2]] = None /\ buttons[c[1]][c[2]] = "normal"

(***************************************************************************)
(* C6.  A human click on an empty cell while the game is in progress       *)
(* writes the mark of the side to move into that cell and no other; on a   *)
(* win or a draw the session is over with the side to move unchanged (when *)
(* the result is announced and still when the announcement is dismissed at *)
(* once), otherwise the side to move flips.  Checked under SpecPvP.        *)
(***************************************************************************)
C6_ClickAppliesMove ==
    \A row \in Idx, col \in Idx :
        (screen = "game" /\ ~GameOver /\ board[row][col] = None
         /\ ~(mode = "pve" /\ current_player = "O"))
            => LET t == handle_click(State, row, col)
                   placed == Place(board, row, col, current_player)
               IN  /\ t.board = placed /\ ~t.raised
                   /\ IF HasLine(placed, "X") \/ HasLine(placed, "O")
                         \/ EmptyCells(placed) = {}
                      THEN /\ t.buttons = AllDisabled
                           /\ t.current_player = current_player
                           /\ Waits(State, t)
                           /\ LET u == showinfo_returns(t)
                              IN  /\ u.board = placed /\ u.buttons = AllDisabled
                                  /\ u.current_player = current_player
                                  /\ u.boxes = boxes
                      ELSE /\ t.buttons # AllDisabled
                           /\ t.current_player = Other(current_player)
                           /\ ~Waits(State, t)

\* A two-human game ended by a click of O that completed a line
C6_Witness ==
    /\ mode = "pvp" /\ GameOver
    /\ HasLine(board, "O") /\ ~HasLine(board, "X")
    /\ current_player = "O"

(***************************************************************************)
(* C7.  In human-vs-computer mode, whenever the session is in `O to move,  *)
(* game in progress`, it eventually is `X to move` or over (or the game    *)
(* screen is left): it never stays in `O to move` forever.  Checked under  *)
(* SpecFair, where scheduled callbacks eventually fire.                    *)
(***************************************************************************)
C7_ComputerEventuallyMoves ==
    (mode = "pve" /\ screen = "game" /\ ~GameOver /\ current_player = "O")
        ~> (current_player = "X" \/ GameOver \/ screen # "game")

(***************************************************************************)
(* C8.  computer_move only ever runs in human-vs-computer mode with O to   *)
(* move, and the mark it places is never an X.                             *)
(***************************************************************************)
C8_AtomicTurn ==
    [][pending_moves' < pending_moves =>
           /\ mode = "pve" /\ current_player = "O"
           /\ CountOf(board', "X") = CountOf(board, "X")]_vars

(***************************************************************************)
(* C9.  In every reachable state of a session the number of X cells minus  *)
(* the number of O cells is 0 or 1.                                        *)
(***************************************************************************)
C9_CountDifference ==
    screen = "game" => CountOf(board, "X") - CountOf(board, "O") \in {0, 1}


(***************************************************************************)
(* C10.  The outcome follows this precedence: a complete line is a win for *)
(* a mark that holds one (also on a full board); else a full board is a    *)
(* draw; else the game is in progress.  The terminal test of minimax       *)
(* returns the score of the same outcome.  Checked under SearchSpec.       *)
(***************************************************************************)
C10_OutcomePrecedence ==
    LET line == HasLine(board, "X") \/ HasLine(board, "O")
        full == EmptyCells(board) = {}
    IN  /\ line => (Outcome(board) \in Marks /\ HasLine(board, Outcome(board)))
        /\ (~line /\ full) => Outcome(board) = "draw"
        /\ (~line /\ ~full) => Outcome(board) = "in_progress"
        /\ (search.op = "minimax" /\ (line \/ full)) =>
               search.value = (IF Outcome(board) = "O" THEN 1
                               ELSE IF Outcome(board) = "X" THEN -1
                               ELSE 0)

\* The terminal test has run on a full board that holds a line of X
C10_Witness ==
    /\ search.op = "minimax"
    /\ EmptyCells(board) = {}
    /\ HasLine(board, "X") /\ ~HasLine(board, "O")
    /\ Outcome(board) = "X"
    /\ search.value = -1

(***************************************************************************)
(* C11.  No board reached through handle_click, computer_move and          *)
(* handle_timeout holds a complete line of X together with a complete      *)
(* line of O.                                                              *)
(***************************************************************************)
C11_OneWinningSide == ~(HasLine(board, "X") /\ HasLine(board, "O"))

(***************************************************************************)
(* C12.  On every board with an empty cell, get_best_move returns an empty *)
(* cell whose score (the value of the board after O plays there, X to      *)
(* move) is the maximum over the empty cells, and the first such cell in   *)
(* row-major order.  Checked under SearchSpec.                             *)
(***************************************************************************)
C12_BestMoveFirstMax ==
    (search.op = "get_best_move" /\ EmptyCells(board) # {}) =>
        LET score == [c \in EmptyCells(board) |->
                          PlainMinimax(Place(board, c[1], c[2], "O"), FALSE)]
            m == search.move
        IN  /\ m \in EmptyCells(board)
            /\ \A c \in EmptyCells(board) :
                   /\ score[c] <= score[m]
                   /\ score[c] = score[m] => CellNo(m) <= CellNo(c)

\* The move returned is not the first empty cell (an earlier one scores less)
\* and a later empty cell ties with it
C12_Witness ==
    /\ search.op = "get_best_move"
    /\ search.move \in EmptyCells(board)
    /\ ~HasLine(board, "X") /\ ~HasLine(board, "O")
    /\ LET score == [c \in EmptyCells(board) |->
                         PlainMinimax(Place(board, c[1], c[2], "O"), FALSE)]
       IN  /\ \E c \in EmptyCells(board) :
                  CellNo(c) < CellNo(search.move) /\ score[c] < score[search.move]
           /\ \E c \in EmptyCells(board) :
                  CellNo(c) > CellNo(search.move) /\ score[c] = score[search.move]

(***************************************************************************)
(* C13.  From the empty board with X first, when X always plays a move of  *)
(* least minimax value and O always plays get_best_move, neither side ever *)
(* completes a line, the game always has a next move until the board is    *)
(* full, and it ends as a draw.  Checked under SpecOptimal.                *)
(***************************************************************************)
C13_OptimalPlayDraws ==
    (mode = "pve" /\ screen = "game") =>
        /\ ~HasLine(board, "X") /\ ~HasLine(board, "O")
        /\ GameOver => (is_board_full(board) /\ scores["pve_hard"]["draws"] = 1
                        /\ Total(scores) = 1)
        /\ ~GameOver =>
               /\ ~is_board_full(board)
               /\ Total(scores) = 0
               /\ \/ /\ current_player = "X" /\ pending_moves = 0
                     /\ LET optimal == OptimalCells(board)
                        IN  /\ optimal # {}
                            /\ \A c \in optimal : buttons[c[1]][c[2]] = "normal"
                  \/ current_player = "O" /\ pending_moves = 1

\* A game of two optimal players played to the end: full board, scored as a draw
C13_Witness ==
    /\ mode = "pve" /\ ai_difficulty = "hard" /\ GameOver
    /\ is_board_full(board)
    /\ CountOf(board, "X") = 5 /\ CountOf(board, "O") = 4
    /\ scores["pve_hard"]["draws"] = 1

(***************************************************************************)
(* C14.  Every new session starts with an empty board and X to move: in    *)
(* every reachable state, whatever was played before, start_game (either   *)
(* mode, any difficulty) and reset_game yield all nine cells empty, every  *)
(* cell button enabled and current_player = X.  Checked under SpecSessions.*)
(***************************************************************************)
C14_NewSessionXFirst ==
    LET Fresh(t) == /\ t.board = EmptyBoard
                    /\ t.buttons = AllNormal
                    /\ t.screen = "game"
                    /\ t.current_player = "X"
    IN  /\ Fresh(start_game(State, "pvp"))
        /\ \A difficulty \in Difficulties :
               Fresh(start_game_with_ai(State, difficulty))
        /\ mode # None => (Fresh(reset_game(State)) /\ reset_game(State).mode = mode)

\* A second two-human session, just started after a finished game
C14_Witness ==
    /\ Total(scores) >= 1
    /\ mode = "pvp" /\ screen = "game"
    /\ board = EmptyBoard /\ buttons = AllNormal
    /\ current_player = "X"

(***************************************************************************)
(* C16.  In human-vs-computer mode request_draw changes nothing (it leaves  *)
(* every field as it is), no response dialog and no announcement of a      *)
(* request or of its answer is open, and a finished session has a line or  *)
(* a full board: it never ends by agreement.  Checked under SpecSessions.  *)
(***************************************************************************)
C16_NoDrawAgainstComputer ==
    mode = "pve" =>
        /\ request_draw(State) = State
        /\ ~dialog
        /\ \A n \in 1 .. Len(boxes) :
               boxes[n][1] \notin {"request_draw", "end_game_draw", "handle_draw_response"}
        /\ GameOver => \/ HasLine(board, "X") \/ HasLine(board, "O")
                       \/ is_board_full(board)

\* A session against the computer in progress, after a two-human game that
\* ended by agreement and another one left with its response dialog closed
\* without an answer (the flag of that request is still set)
C16_Witness ==
    /\ mode = "pve" /\ screen = "game" /\ ~GameOver
    /\ board # EmptyBoard
    /\ scores["pvp"]["draws"] >= 1
    /\ draw_request_active /\ draw_request_player = "X"

(***************************************************************************)
(* C15.  Once a two-human session has ended, no step other than starting a *)
(* new session opens a draw handshake or changes the scores: request_draw  *)
(* is not callable on a finished game.                                     *)
(***************************************************************************)
C15_NoDrawAfterEnd ==
    [][(mode = "pvp" /\ GameOver /\ ~NewSession) =>
           (~dialog' /\ ~draw_request_active' /\ scores' = scores)]_vars

(***************************************************************************)
(* C17.  Resolving a pending draw request.  Accepted: all buttons are      *)
(* disabled (game over) whatever the board holds, the pvp draws counter    *)
(* grows by 1 and the request is cleared; the timer is stopped once the    *)
(* announcement is dismissed.  Rejected (or auto-rejected): the request is *)
(* cleared, the request button is enabled again, the rejection is          *)
(* announced and nothing else changes.  Checked under SpecPvP.             *)
(***************************************************************************)
C17_DrawResolution ==
    dialog =>
        LET a == handle_draw_response(State, TRUE, "open")
            r == handle_draw_response(State, FALSE, "open")
            cleared == [State EXCEPT !.dialog = FALSE,
                                     !.draw_request_active = FALSE,
                                     !.draw_request_player = None,
                                     !.draw_request_btn = "normal"]
        IN  /\ mode = "pvp" /\ draw_request_active
            /\ a.buttons = AllDisabled /\ a.screen = "game"
            /\ a.board = board /\ a.current_player = current_player
            /\ a.scores = [scores EXCEPT !["pvp"]["draws"] = @ + 1]
            /\ ~a.draw_request_active /\ a.draw_request_player = None /\ ~a.dialog
            /\ Waits(State, a) /\ ~a.raised
            /\ showinfo_returns(a) =
                   [a EXCEPT !.boxes = boxes, !.timer_id = None, !.countdowns = 0,
                             !.draw_request_btn = "normal"]
            /\ r = showinfo(cleared, "handle_draw_response")
            /\ showinfo_returns(r) = cleared

\* A game ended by an accepted request on a board with no line and empty cells
C17_Witness ==
    /\ mode = "pvp" /\ GameOver /\ ~dialog /\ ~draw_request_active
    /\ ~HasLine(board, "X") /\ ~HasLine(board, "O") /\ ~is_board_full(board)
    /\ board # EmptyBoard
    /\ scores["pvp"]["draws"] = 1 /\ Total(scores) = 1
    /\ timer_id = None

(***************************************************************************)
(* C18.  handle_timeout on a human's turn passes the turn: the side to     *)
(* move flips, the board, the buttons and the scores are unchanged and the *)
(* timer restarts at 30 (replacing the running one); against the computer  *)
(* the pass from X schedules one computer_move.  On the computer's turn it *)
(* changes nothing.  The same holds for the countdown tick that brings     *)
(* turn_time to 0.  A countdown is pending on the game screen only, so the  *)
(* timer expires there.  Checked under Spec.                               *)
(***************************************************************************)
C18_TimeoutPasses ==
    /\ countdowns > 0 => screen = "game"
    /\ (mode # None /\ current_player # None /\ screen = "game") =>
        LET Passed(t) ==
                /\ t.current_player = Other(current_player)
                /\ t.mode = mode /\ ~t.raised /\ t.boxes = boxes
                /\ t.board = board /\ t.buttons = buttons /\ t.scores = scores
                /\ t.turn_time = 30 /\ t.timer_id = "live"
                /\ t.pending_moves = IF mode = "pve" THEN pending_moves + 1
                                     ELSE pending_moves
            t == handle_timeout(State)
            u == countdown(State)
        IN  /\ IF mode = "pve" /\ current_player = "O"
               THEN t = State
               ELSE /\ Passed(t)
                    /\ t.countdowns = IF timer_id = "live" THEN countdowns
                                      ELSE countdowns + 1
            /\ (countdowns = 1 /\ timer_id = "live" /\ turn_time = 1) =>
                   IF mode = "pve" /\ current_player = "O"
                   THEN /\ u.current_player = "O" /\ u.board = board
                        /\ u.scores = scores /\ u.pending_moves = pending_moves
                        /\ u.turn_time = 0 /\ u.countdowns = 0
                   ELSE Passed(u) /\ u.countdowns = 1

\* The human let the first turn expire: O to move on the empty board with the
\* timer restarted and the computer's move scheduled
C18_Witness ==
    /\ mode = "pve" /\ screen = "game" /\ board = EmptyBoard
    /\ current_player = "O" /\ pending_moves = 1
    /\ turn_time = 30 /\ countdowns = 1 /\ timer_id = "live"

(***************************************************************************)
(* C19.  The cell computer_move plays is an empty cell chosen by the       *)
(* difficulty's policy: on Easy any empty cell (and each of them can be    *)
(* chosen), on Medium the result of get_best_move or any empty cell, on    *)
(* Hard exactly the result of get_best_move.  Stated of the choices        *)
(* offered in every state with a computer_move pending and of every        *)
(* computer_move step taken.  Checked under SpecPolicies.                  *)
(***************************************************************************)
C19_SelectionPolicy ==
    /\ [](LET choices == ComputerChoices(State)
              empty == EmptyCells(board)
          IN  (pending_moves > 0 /\ mode # None /\ empty # {}) =>
                  /\ choices # {} /\ choices \subseteq empty
                  /\ ai_difficulty = "easy" => choices = empty
                  /\ ai_difficulty = "medium" =>
                         (get_best_move(board) \in choices /\ empty \subseteq choices)
                  /\ ai_difficulty = "hard" => choices = {get_best_move(board)})
    /\ [][pending_moves' < pending_moves =>
              IF mode = None \/ EmptyCells(board) = {}
              THEN board' = board
              ELSE \E c \in EmptyCells(board) :
                       /\ board' = Place(board, c[1], c[2], current_player)
                       /\ ai_difficulty = "hard" => c = get_best_move(board)]_vars

\* Hard has answered the corner (0,0) with the centre, not the first empty cell
C19_Witness ==
    /\ mode = "pve" /\ ai_difficulty = "hard" /\ screen = "game"
    /\ pending_moves = 0
    /\ CountOf(board, "X") = 1 /\ CountOf(board, "O") = 1
    /\ board[0][0] = "X" /\ board[1][1] = "O"

(***************************************************************************)
(* C20.  Whenever computer_move runs, the board has an empty cell and no   *)
(* completed line, and the session is not over.                            *)
(***************************************************************************)
C20_SearchPrecondition ==
    [][pending_moves' < pending_moves =>
           /\ EmptyCells(board) # {}
           /\ ~HasLine(board, "X") /\ ~HasLine(board, "O")
           /\ ~GameOver]_vars

(***************************************************************************)
(* C21.  The search never changes the grid it is given: when minimax or    *)
(* get_best_move, run on self.board itself, returns (also after a branch   *)
(* was cut off by beta <= alpha), every cell holds the value it held at    *)
(* the call.  Checked under InPlaceSpec.                                   *)
(***************************************************************************)
C21_SearchLeavesBoard ==
    [][search' # search =>
           \A c \in Cells : board'[c[1]][c[2]] = board[c[1]][c[2]]]_vars

\* minimax has returned from a grid with an empty centre and at least four
\* empty cells, on which it took a `break`
C21_Witness ==
    /\ search.op = "minimax_in_place"
    /\ ~HasLine(board, "X") /\ ~HasLine(board, "O")
    /\ board[1][1] = None
    /\ Cardinality(EmptyCells(board)) >= 4
    /\ minimax_in_place(board, 0, search.is_maximizing, NegInf, PosInf).cuts > 0

\* The number of cells of b that hold a mark
MarkCount(b) == Cardinality({c \in Cells : b[c[1]][c[2]] # None})

\* From b to nb no mark is overwritten or cleared, and at most one is added
KeepsMarks(b, nb) ==
    /\ \A c \in Cells : b[c[1]][c[2]] # None => nb[c[1]][c[2]] = b[c[1]][c[2]]
    /\ nb # b => MarkCount(nb) = MarkCount(b) + 1

(***************************************************************************)
(* C22.  Every applied move goes to an empty cell.  handle_click on any    *)
(* cell, and every step of a session other than the start of a new one     *)
(* (the human's clicks and computer_move at every difficulty), leaves each *)
(* cell that holds a mark as it is, and a step that changes the board      *)
(* raises the number of marks by exactly one.  Checked under SpecAny.      *)
(***************************************************************************)
C22_MovesFillEmptyCells ==
    /\ [](\A row \in Idx, col \in Idx :
              KeepsMarks(board, handle_click(State, row, col).board))
    /\ [][~NewSession => KeepsMarks(board, board')]_vars

\* On Hard the computer has moved twice while the cell (0,0), the default
\* result of get_best_move, holds the human's mark
C22_Witness ==
    /\ mode = "pve" /\ ai_difficulty = "hard" /\ screen = "game"
    /\ board[0][0] = "X"
    /\ CountOf(board, "O") >= 2 /\ CountOf(board, "X") >= 2

\* The key of the score record for a mode and a difficulty
KeyFor ==
    [pvp |-> [easy |-> "pvp", medium |-> "pvp", hard |-> "pvp"],
     pve |-> [easy |-> "pve_easy", medium |-> "pve_medium", hard |-> "pve_hard"]]

\* The counter a result is recorded in
CounterFor == [win |-> "wins", loss |-> "losses", draw |-> "draws"]

\* From sc to nsc exactly the counter c of key k grew, by 1
OnlyGrew(sc, nsc, k, c) ==
    /\ DOMAIN nsc = DOMAIN sc
    /\ \A key \in DOMAIN sc : \A counter \in Counters :
           nsc[key][counter] = sc[key][counter]
                               + (IF key = k /\ counter = c THEN 1 ELSE 0)

(***************************************************************************)
(* C23.  A terminal outcome maps onto exactly one counter.  In either mode  *)
(* and at every difficulty, update_score(result) adds 1 to the counter of  *)
(* the result (win: wins, loss: losses, draw: draws) under the key of the  *)
(* mode ('pvp', or 'pve_<difficulty>' against the computer), leaves the    *)
(* two other counters of that key and all counters of every other key as   *)
(* they are, and changes nothing else.  Every step that changes the scores *)
(* changes them so, for the key of the session: wins are counted on a      *)
(* board with a line of X, losses on a board with a line of O, draws on a  *)
(* full board without a line or, the board left as it is, on a draw agreed *)
(* in the dialog.  Checked under SpecSaved, where the record has the shape *)
(* the program writes (three integer counters per key).                    *)
(***************************************************************************)
C23_OneCounterPerOutcome ==
    /\ [](\A m \in {"pvp", "pve"}, d \in Difficulties,
             result \in {"win", "loss", "draw"} :
              LET s == [State EXCEPT !.mode = m, !.ai_difficulty = d]
                  t == update_score(s, result)
              IN  /\ ~t.raised
                  /\ OnlyGrew(scores, t.scores, KeyFor[m][d], CounterFor[result])
                  /\ t = [s EXCEPT !.scores = t.scores])
    /\ [][scores' # scores =>
              \E result \in {"win", "loss", "draw"} :
                  /\ OnlyGrew(scores, scores', KeyFor[mode][ai_difficulty],
                              CounterFor[result])
                  /\ result = "win" => HasLine(board', "X")
                  /\ result = "loss" => HasLine(board', "O")
                  /\ result = "draw" => \/ board' = board
                                        \/ /\ is_board_full(board')
                                           /\ ~HasLine(board', "X")
                                           /\ ~HasLine(board', "O")]_vars

\* A game on Easy that the computer won, in a run that found one loss on Easy
\* in the score file: two losses under pve_easy only
C23_Witness ==
    /\ mode = "pve" /\ ai_difficulty = "easy" /\ GameOver
    /\ HasLine(board, "O") /\ ~HasLine(board, "X")
    /\ scores = [ZeroScores EXCEPT !["pve_easy"]["losses"] = 2]

\* X at (0,0) and (0,1), every other cell empty
TwoInTopRow == Place(Place(EmptyBoard, 0, 0, "X"), 0, 1, "X")

(***************************************************************************)
(* C24.  On the board with X at (0,0) and (0,1), every other cell empty    *)
(* and O to move, get_best_move returns exactly (0,2).  Checked under      *)
(* OpeningSpec.                                                            *)
(***************************************************************************)
C24_BlocksTopRow ==
    (search.op = "get_best_move" /\ board = TwoInTopRow) => search.move = <<0, 2>>

\* get_best_move has returned the blocking cell on that board; every other
\* cell loses at once to X at (0,2)
C24_Witness ==
    /\ search.op = "get_best_move"
    /\ board = TwoInTopRow
    /\ search.move = <<0, 2>>
    /\ board[0][2] = None
    /\ \A c \in EmptyCells(board) \ {<<0, 2>>} :
           HasLine(Place(Place(board, c[1], c[2], "O"), 0, 2, "X"), "X")

(***************************************************************************)
(* C25.  The search terminates: get_best_move and minimax return on every  *)
(* board, every recursive minimax call is made on a grid with fewer empty  *)
(* cells than its caller's, and the depth of the recursion never exceeds   *)
(* the number of empty cells of the starting board (at most 9).  Checked   *)
(* under InPlaceSpec.                                                      *)
(***************************************************************************)
C25_SearchTerminates ==
    LET empty == Cardinality(EmptyCells(board))
    IN  /\ search.op = "get_best_move_in_place" =>
               LET r == get_best_move_in_place(board)
               IN  /\ r.move \in Cells /\ search.move = r.move
                   /\ r.shrinks
                   /\ r.deepest <= empty /\ r.deepest <= 9
        /\ search.op = "minimax_in_place" =>
               LET r == minimax_in_place(board, 0, search.is_maximizing, NegInf, PosInf)
               IN  /\ r.value \in {-1, 0, 1} /\ search.value = r.value
                   /\ r.shrinks
                   /\ r.deepest <= empty /\ r.deepest <= 9

\* get_best_move has returned on the empty board, where the recursion went
\* down to a full grid (depth 8)
C25_Witness ==
    /\ search.op = "get_best_move_in_place"
    /\ board = EmptyBoard
    /\ get_best_move_in_place(board).deepest = 8

(***************************************************************************)
(* C26.  At most one countdown callback is pending at any time, and it is  *)
(* the one timer_id names, so that start_timer cancels it before it        *)
(* schedules a new one (none once the game screen has been left, where     *)
(* updating the destroyed timer label raises); the turn time stays within  *)
(* 0..30.  Checked under Spec.                                             *)
(***************************************************************************)
C26_OneCountdown ==
    /\ countdowns \in {0, 1}
    /\ countdowns = 1 => timer_id = "live"
    /\ turn_time \in 0 .. 30
    /\ LET t == start_timer(State)
       IN  /\ t.turn_time = 30
           /\ t.countdowns = (IF t.raised THEN 0 ELSE 1)
           /\ t.raised <=> (mode # None /\ screen # "game")

\* A game in progress in which the timer was restarted by moves and has
\* ticked since
C26_Witness ==
    /\ mode = "pve" /\ screen = "game" /\ ~GameOver
    /\ CountOf(board, "X") >= 2 /\ CountOf(board, "O") >= 2
    /\ countdowns = 1 /\ timer_id = "live"
    /\ turn_time = 25

(***************************************************************************)
(* C27.  Once a move has ended the game (a completed line or a full        *)
(* board) and its handler has returned (the announcement of the result is  *)
(* dismissed), the turn timer is stopped and stays stopped until a new     *)
(* session starts: no countdown is pending and no step passes the turn.    *)
(***************************************************************************)
C27_TimerStoppedAfterEnd ==
    /\ []((GameOver /\ boxes = <<>>) => (countdowns = 0 /\ timer_id = None))
    /\ [][(GameOver /\ boxes = <<>> /\ ~NewSession) =>
              current_player' = current_player]_vars

(***************************************************************************)
(* C28.  At most one draw request is pending.  While draw_request_active   *)
(* is true (the request is being announced, its response dialog is open,   *)
(* or the dialog was closed without an answer) the request button is       *)
(* disabled and request_draw changes nothing (the requesting player is     *)
(* kept, no other dialog is opened); no dialog is open without a pending   *)
(* request or together with a message box, and a request is announced by  *)
(* one box only while it is pending; a rejection, an accepted draw and     *)
(* reset_game each clear the flag and the requesting player.  Checked      *)
(* under SpecPvP.                                                          *)
(***************************************************************************)
C28_OneDrawRequest ==
    LET Cleared(t) == ~t.draw_request_active /\ t.draw_request_player = None
                      /\ ~t.dialog
    IN  /\ draw_request_active =>
               /\ mode = "pvp"
               /\ draw_request_btn = "disabled"
               /\ draw_request_player \in Marks
               /\ request_draw(State) = State
        /\ dialog => (draw_request_active /\ boxes = <<>>)
        /\ (\E n \in 1 .. Len(boxes) : boxes[n][1] = "request_draw") =>
               (draw_request_active /\ boxes = <<(<<"request_draw">>)>>)
        /\ Cleared(handle_draw_response(State, FALSE, "open"))
        /\ Cleared(handle_draw_response(State, TRUE, "open"))
        /\ Cleared(reset_game(State))

\* A request of X is pending and the turn has since passed to O by a timeout
C28_Witness ==
    /\ mode = "pvp" /\ draw_request_active /\ dialog
    /\ draw_request_player = "X" /\ current_player = "O"
    /\ board = EmptyBoard

====
